---------------------------- MODULE Spec2Model ----------------------------
(***************************************************************************)
(* State-machine model of the RMCS streaming backend (quando2299/rmcs):    *)
(*   - the peer registry        (lib/webrtc.go, WebRTCManager)             *)
(*   - the video producer       (VideoStreamer, locked and unlocked)       *)
(*   - the signaling bridge     (MQTTClient.Connect handlers)              *)
(*   - the control facade       (RMCSInit / RMCSStop / RMCSGetStatus ...)  *)
(*                                                                         *)
(* Every handler that runs under a mutex is one action.  A connection-     *)
(* state callback runs on a goroutine of its own (it locks w.mu, which     *)
(* ProcessOffer, DisconnectPeer and Close hold while they call Close on a  *)
(* peer connection), so a callback is a separate, independently scheduled  *)
(* process: spawned by the state change, run later.  The callback reads    *)
(* its peerID and the registry, never its own connection, so callbacks     *)
(* that run the same code for the same peerID are interchangeable and are  *)
(* kept as one.  A connection is its ConnectionState(); one that left the  *)
(* registry is closed and is referred to by its callbacks only.            *)
(***************************************************************************)
EXTENDS Integers, Sequences, FiniteSets, TLC

-----------------------------------------------------------------------------
(* Bounds of the model *)

\* candidates in one candidate/robot payload
MaxCandidates == 1
\* local candidates one session gathers
MaxGathered == 2
\* RMCSInit calls that succeed in one run
MaxInstances == 2
\* streamLoop goroutines alive at a time
MaxLoops == 2
\* .h264 files in a camera directory that has any
NumFiles == 2
\* NAL units the camera producer reads in one run
MaxNALs == 5
\* the latest time the clock shows
MaxClock == 2
\* versions of the SPS and of the PPS the encoder can deliver
NumBodies == 2
\* bytes in a buffer given to the parser
MaxLen == 8
\* bytes in a payload given to addEmulationPrevention
MaxPayload == 5
\* frames the parsing stream loop sends in one run
MaxFrames == 2
\* NAL units in one frame
MaxFrameNALs == 3
\* bytes the encoder writes in one run
MaxStream == 12
\* the same for streams of more than two byte values
MaxMixed == 8
\* NAL units in one length-prefixed file
MaxUnits == 2
\* bytes in a short NAL unit of such a file
MaxBody == 2

(* Program constants *)

\* the camera table has entries 1..7
NumCameras == 7
\* camera loaded by NewWebRTCManager
defaultCamera == 1

-----------------------------------------------------------------------------
(* Topics are strings; a string is modelled as a sequence of characters.   *)
(* "t" stands for the thing name, "r" for "robot-control".                 *)

baseTopic == <<"t", "/", "r">>

offerSuffix == <<"/", "o">>
answerSuffix == <<"/", "a">>
candidateRobotSuffix == <<"/", "c", "/", "r">>
disconnectClientSuffix == <<"/", "d">>
candidateRmcsSuffix == <<"/", "c", "/", "m">>
disconnectTractorTopic == baseTopic \o <<"/", "x">>

\* peer identifiers the remote side uses (one topic level, no "/")
PeerIDs == {<<"a">>, <<"b", "c">>}

\* the value of a peerID variable that was never assigned
NoPeer == <<"/">>

\* fmt.Sprintf("%s/%s/...", baseTopic, peerID)
PeerTopic(peerID, suffix) == baseTopic \o <<"/">> \o peerID \o suffix

SeqMin(S) == CHOOSE x \in S : \A y \in S : x <= y

\* the peer ID a handler reads from a topic: skip len(baseTopic)+1 bytes,
\* then take the bytes before the next "/"
ExtractPeerID(topicStr) ==
    LET baseLen == Len(baseTopic) + 1
    IN  IF Len(topicStr) > baseLen
        THEN LET remainingTopic == SubSeq(topicStr, baseLen + 1, Len(topicStr))
                 slashes == {i \in 1..Len(remainingTopic) : remainingTopic[i] = "/"}
             IN  IF slashes = {} THEN NoPeer
                 ELSE SubSeq(remainingTopic, 1, SeqMin(slashes) - 1)
        ELSE NoPeer

-----------------------------------------------------------------------------
VARIABLES
    rmcsInstance,     \* "nil" or "running": the global *RMCSInstance
    instances,        \* how many RMCSInstance values RMCSInit has made
    rmcsMutex,        \* "free", or the facade call that holds it for ever
    mqttConnected,    \* the MQTT client of the instance is connected
    peerConnections,  \* WebRTCManager.peerConnections: peerID -> the
                      \* ConnectionState() of the connection stored there
    callbacks,        \* connection-state callback goroutines not yet finished
    wmu,              \* WebRTCManager.mu: "free", or the blocked holder
    camera,           \* camera whose files VideoStreamer.frameFiles holds, 0: none
    cached,           \* VideoStreamer.sps, pps, lastIDR: the camera each was
                      \* read from, 0: nil
    frameCounter,     \* VideoStreamer.frameCounter
    isStreaming,      \* VideoStreamer.isStreaming
    loops,            \* live streamLoop goroutines
    vmu,              \* VideoStreamer.mu: "free", or the blocked holder
    crashed,          \* the process died of a runtime panic
    capture,          \* the CameraCapture and what it wrote to its track
    buf,              \* a byte buffer and what the parser made of it
    parser,           \* the H264Parser of a stream loop and its last output
    switching,        \* the calls of LoadH264Files between its two assignments
    reader,           \* the encoder's byte stream and the buffer it is read into
    ice,              \* per peerID: how far the offer handler has come with the
                      \* session and the local candidates the session gathered
    last              \* what the last step did (history)

facadeVars == <<rmcsInstance, instances, rmcsMutex, mqttConnected>>
registryVars == <<peerConnections, callbacks, wmu>>
producerVars == <<isStreaming, loops, vmu, frameCounter, cached>>
mediaVars == <<capture, buf, parser, switching, reader, ice>>
vars == <<rmcsInstance, instances, rmcsMutex, mqttConnected, peerConnections, callbacks, wmu,
          camera, cached, frameCounter, isStreaming, loops, vmu, crashed, capture, buf,
          parser, switching, reader, ice, last>>

\* make(map[string]*webrtc.PeerConnection)
NoSessions == [id \in {} |-> ""]

NoSteps == [op |-> "none", peer |-> NoPeer, topic |-> << >>, arg |-> 0, ret |-> "", code |-> 0,
            was |-> "none", closed |-> {}, pubs |-> << >>, trace |-> << >>]

\* the record of a step: the operation, the peerID it worked on, the topic
\* it was received on, what it returned, what was there before (the state
\* of the session of the peerID or "none"; the instance, for the facade),
\* the peerIDs whose registered connection it called Close on, and the
\* messages it published
Did(op, peer, topic, ret, code, was, closed, pubs) ==
    [op |-> op, peer |-> peer, topic |-> topic, arg |-> 0, ret |-> ret, code |-> code,
     was |-> was, closed |-> closed, pubs |-> pubs, trace |-> << >>]

-----------------------------------------------------------------------------
(* The video producer: VideoStreamer with StartStreaming and StopStreaming *)
(* under v.mu.  A streamLoop goroutine waits in its select from the moment *)
(* it is started, so the send on the unbuffered stopChan completes as soon *)
(* as a loop is alive, and blocks for ever when none is.                   *)

\* StartStreaming, called with v.mu free
StartStreaming ==
    /\ isStreaming' = TRUE
    /\ loops' = IF isStreaming THEN loops ELSE loops + 1
    /\ frameCounter' = IF isStreaming THEN frameCounter ELSE -1
    /\ UNCHANGED <<vmu, cached>>

\* the caller of StopStreaming cannot return: v.mu is held for ever, or the
\* send on stopChan finds no streamLoop to receive it
StopBlocks == vmu # "free" \/ (isStreaming /\ loops = 0)

\* StopStreaming
StopStreaming ==
    IF vmu # "free" THEN UNCHANGED producerVars
    ELSE IF ~isStreaming THEN UNCHANGED producerVars
    ELSE IF loops > 0
         THEN /\ isStreaming' = FALSE /\ loops' = loops - 1
              /\ UNCHANGED <<vmu, frameCounter, cached>>
         ELSE /\ vmu' = "StopStreaming"
              /\ UNCHANGED <<isStreaming, loops, frameCounter, cached>>

-----------------------------------------------------------------------------
(* The peer registry: WebRTCManager *)

\* the state of the session registered under peerID
Was(peerID) ==
    IF peerID \in DOMAIN peerConnections THEN peerConnections[peerID] ELSE "none"

\* the callback goroutine a change to connection state s starts for peerID
Callback(peerID, s) ==
    [peer |-> peerID, kind |-> IF s = "connected" THEN "connected" ELSE "down",
     stage |-> "spawned"]

\* PeerConnection.Close() on the connections registered under the peerIDs S:
\* each that is not closed yet changes state, which starts its callback
ClosedCallbacks(S) ==
    {Callback(id, "closed") : id \in {x \in S : peerConnections[x] # "closed"}}

\* the callback's scan: some session under another peerID is Connected
HasConnectedOther(peerID) ==
    \E id \in DOMAIN peerConnections :
        id # peerID /\ peerConnections[id] = "connected"

\* a scan that finds no Connected session, whatever is left
HasConnectedNever(conns) == FALSE

\* DisconnectPeer's scan over what is left in the registry
HasConnected(conns) ==
    \E id \in DOMAIN conns : conns[id] = "connected"

ProcessOfferOutcomes ==
    {"errNewPC", "errAddTrack", "errSetRemote", "errCreateAnswer", "errSetLocal", "ok"}

\* a ProcessOffer that closes every registered connection
ProcessOfferClosesAll(peerID) == DOMAIN peerConnections

\* the peerIDs whose registered connection ProcessOffer(peerID, ...) closes
ProcessOfferCloses(peerID) ==
    IF peerID \in DOMAIN peerConnections THEN {peerID} ELSE {}

\* ProcessOffer(peerID, offerSDP), called with w.mu free; outcome is what
\* the WebRTC stack answers to this offer.  The existing connection is
\* closed first; a new one is stored once its track and handlers are set,
\* before the offer is applied; a connection that AddTrack refuses is
\* closed and referred to nowhere.
\* the steps of ProcessOffer in program order, with the lock and unlock of
\* w.mu (the unlock is deferred to the return)
ProcessOfferSteps(exists, outcome) ==
    <<"Lock">> \o (IF exists THEN <<"pc.Close">> ELSE << >>) \o <<"NewPeerConnection">>
       \o (IF outcome = "errNewPC" THEN << >>
           ELSE IF outcome = "errAddTrack" THEN <<"AddTrack", "pc.Close">>
           ELSE <<"AddTrack", "store", "SetRemoteDescription">>
                  \o (IF outcome = "errSetRemote" THEN << >>
                      ELSE <<"CreateAnswer">>
                             \o (IF outcome = "errCreateAnswer" THEN << >>
                                 ELSE <<"SetLocalDescription">>)))
       \o <<"Unlock">>

\* the steps of SetupICECandidateHandler
SetupICECandidateHandlerSteps == <<"Lock", "Unlock", "pc.OnICECandidate">>

\* the steps of AddICECandidate
AddICECandidateSteps(exists) ==
    <<"Lock", "Unlock">> \o (IF exists THEN <<"pc.AddICECandidate">> ELSE << >>)

\* the steps of DisconnectPeer; blocks: StopStreaming never returns
DisconnectPeerSteps(exists, hasConnected, blocks) ==
    <<"Lock">>
       \o (IF ~exists THEN <<"Unlock">>
           ELSE <<"pc.Close", "delete">>
                  \o (IF hasConnected THEN <<"Unlock">>
                      ELSE <<"StopStreaming">> \o (IF blocks THEN << >> ELSE <<"Unlock">>)))

\* the steps of Close on a registry of n connections
CloseSteps(n, blocks) ==
    <<"Lock">> \o [i \in 1..n |-> "pc.Close"] \o <<"StopStreaming">>
       \o (IF blocks THEN << >> ELSE <<"Unlock">>)

ProcessOffer(peerID, outcome) ==
    LET existing == ProcessOfferCloses(peerID)
        closed == [id \in DOMAIN peerConnections |->
                      IF id \in existing THEN "closed" ELSE peerConnections[id]]
    IN  /\ callbacks' = callbacks \cup ClosedCallbacks(existing)
        /\ peerConnections' =
              IF outcome \in {"errNewPC", "errAddTrack"} THEN closed
              ELSE [id \in DOMAIN closed \cup {peerID} |->
                       IF id = peerID
                       THEN (IF outcome = "ok" THEN "connecting" ELSE "new")
                       ELSE closed[id]]
        /\ UNCHANGED wmu

\* the registry after delete(w.peerConnections, peerID)
Delete(peerID) ==
    [id \in DOMAIN peerConnections \ {peerID} |-> peerConnections[id]]

\* DisconnectPeer(peerID), called with w.mu free
DisconnectPeer(peerID) ==
    IF peerID \in DOMAIN peerConnections
    THEN /\ callbacks' = callbacks \cup ClosedCallbacks({peerID})
         /\ peerConnections' = Delete(peerID)
         /\ IF ~HasConnected(Delete(peerID))
            THEN /\ StopStreaming
                 /\ wmu' = IF StopBlocks THEN "DisconnectPeer" ELSE "free"
            ELSE UNCHANGED <<producerVars, wmu>>
    ELSE UNCHANGED <<registryVars, producerVars>>

\* Close(), called with w.mu free
Close ==
    /\ callbacks' = callbacks \cup ClosedCallbacks(DOMAIN peerConnections)
    /\ peerConnections' = NoSessions
    /\ StopStreaming
    /\ wmu' = IF StopBlocks THEN "Close" ELSE "free"

-----------------------------------------------------------------------------
(* The signaling bridge: the handlers MQTTClient.Connect subscribes.  The  *)
(* MQTT client runs them one at a time on its own goroutine; a handler     *)
(* that needs w.mu while w.mu is held for ever never runs.                 *)

\* the MQTT client is inside its camera handler
CameraHandlerRuns == \E s \in switching : s.by = "mqtt"

Answer(peerID) == [topic |-> PeerTopic(peerID, answerSuffix), payload |-> "answerSDP"]

\* an offer handler that publishes an answer whatever ProcessOffer returned
OfferPublishesAlways(peerID, err) == <<Answer(peerID)>>

\* what the offer handler publishes after ProcessOffer returned err
OfferPublishes(peerID, err) == IF err THEN << >> ELSE <<Answer(peerID)>>

\* handler of baseTopic/+/offer
OfferHandler(topic, outcome) ==
    LET peerID == ExtractPeerID(topic)
    IN  /\ mqttConnected /\ ~crashed /\ wmu = "free" /\ ~CameraHandlerRuns
        /\ peerID # NoPeer
        /\ ProcessOffer(peerID, outcome)
        /\ last' = [Did("Offer", peerID, topic, IF outcome = "ok" THEN "ok" ELSE "err", 0,
                        Was(peerID), ProcessOfferCloses(peerID),
                        OfferPublishes(peerID, outcome # "ok"))
                     EXCEPT !.trace =
                        ProcessOfferSteps(peerID \in DOMAIN peerConnections, outcome)
                           \o (IF outcome = "ok" THEN SetupICECandidateHandlerSteps
                               ELSE << >>)]
        /\ UNCHANGED <<mediaVars, facadeVars, producerVars, camera, crashed>>

\* handler of baseTopic/+/disconnect-client
DisconnectHandler(topic) ==
    LET peerID == ExtractPeerID(topic)
    IN  /\ mqttConnected /\ ~crashed /\ wmu = "free" /\ ~CameraHandlerRuns
        /\ peerID # NoPeer
        /\ DisconnectPeer(peerID)
        /\ last' = [Did("Disconnect", peerID, topic,
                        IF wmu' = "free" THEN "nil" ELSE "blocked", 0,
                        Was(peerID), {peerID} \cap DOMAIN peerConnections, << >>)
                     EXCEPT !.trace =
                        DisconnectPeerSteps(peerID \in DOMAIN peerConnections,
                                            HasConnected(Delete(peerID)), wmu' # "free")]
        /\ UNCHANGED <<mediaVars, facadeVars, camera, crashed>>

\* an AddICECandidate that does not look the peerID up
AddICECandidateAlways(peerID) == "forwarded"

\* AddICECandidate(peerID, candidateData): the result it returns
AddICECandidate(peerID) ==
    IF peerID \in DOMAIN peerConnections THEN "forwarded" ELSE "noPeerConnection"

\* handler of baseTopic/+/candidate/robot; validJSON: json.Unmarshal accepts
\* the payload, n: the candidates in it
CandidateHandler(topic, validJSON, n) ==
    LET peerID == ExtractPeerID(topic)
    IN  /\ mqttConnected /\ ~crashed /\ ~CameraHandlerRuns
        /\ wmu # "DisconnectPeer"
        /\ (validJSON /\ n > 0) => wmu = "free"
        /\ last' = [Did("Candidate", peerID, topic,
                        IF ~validJSON THEN "dropped"
                        ELSE IF n = 0 \/ peerID = NoPeer THEN "none"
                        ELSE AddICECandidate(peerID),
                        0, IF peerID = NoPeer THEN "none" ELSE Was(peerID), {}, << >>)
                     EXCEPT !.trace =
                        IF validJSON /\ peerID # NoPeer
                        THEN LET steps == AddICECandidateSteps(peerID \in DOMAIN peerConnections)
                             IN  [i \in 1..(n * Len(steps)) |->
                                     steps[((i - 1) % Len(steps)) + 1]]
                        ELSE << >>]
        /\ UNCHANGED <<mediaVars, facadeVars, registryVars, producerVars, camera, crashed>>

\* w.Close() called on the running manager
CloseManager ==
    /\ rmcsInstance = "running" /\ ~crashed /\ wmu = "free"
    /\ Close
    /\ last' = [Did("Close", NoPeer, << >>, IF wmu' = "free" THEN "nil" ELSE "blocked", 0,
                    "none", DOMAIN peerConnections, << >>)
                 EXCEPT !.trace = CloseSteps(Cardinality(DOMAIN peerConnections),
                                             wmu' # "free")]
    /\ UNCHANGED <<mediaVars, facadeVars, camera, crashed>>

-----------------------------------------------------------------------------
(* The offer handler step by step, as the ICE agent of the new connection  *)
(* sees it.  The agent starts to gather local candidates when              *)
(* SetLocalDescription has applied the answer, on goroutines of its own,   *)
(* and hands each candidate to the handler OnICECandidate has set; with no *)
(* handler set the candidate is dropped.                                   *)

\* no session has a local description
NoCandidates == [p \in PeerIDs |-> [stage |-> "none", gathered |-> 0]]

\* the MQTT client is inside its offer handler
OfferHandlerRuns == \E p \in PeerIDs : ice[p].stage \in {"processed", "installed"}

Candidate(peerID) ==
    [topic |-> PeerTopic(peerID, candidateRmcsSuffix), payload |-> "candidateJSON"]

\* handler of baseTopic/+/offer up to the return of ProcessOffer
OfferProcess(topic, outcome) ==
    LET peerID == ExtractPeerID(topic)
    IN  /\ mqttConnected /\ ~crashed /\ wmu = "free" /\ ~CameraHandlerRuns
        /\ ~OfferHandlerRuns
        /\ peerID # NoPeer
        /\ ProcessOffer(peerID, outcome)
        /\ ice' = [ice EXCEPT ![peerID] =
                      [stage |-> IF outcome = "ok" THEN "processed" ELSE "none",
                       gathered |-> 0]]
        /\ last' = [Did("ProcessOffer", peerID, topic, IF outcome = "ok" THEN "ok" ELSE "err",
                        0, Was(peerID), ProcessOfferCloses(peerID), << >>)
                     EXCEPT !.trace =
                        ProcessOfferSteps(peerID \in DOMAIN peerConnections, outcome)]
        /\ UNCHANGED <<facadeVars, producerVars, camera, crashed, capture, buf, parser,
                       switching, reader>>

\* ... then SetupICECandidateHandler(peerID, handler); the connection that
\* ProcessOffer stored is found, no handler that deletes it runs in between
OfferInstall(peerID) ==
    /\ ~crashed
    /\ ice[peerID].stage = "processed"
    /\ peerID \in DOMAIN peerConnections
    /\ ice' = [ice EXCEPT ![peerID].stage = "installed"]
    /\ last' = [Did("SetupICECandidateHandler", peerID, << >>, "", 0, Was(peerID), {}, << >>)
                 EXCEPT !.trace = SetupICECandidateHandlerSteps]
    /\ UNCHANGED <<facadeVars, registryVars, producerVars, camera, crashed, capture, buf,
                   parser, switching, reader>>

\* ... then the publish of the answer, and the return
OfferAnswer(peerID) ==
    /\ ~crashed
    /\ ice[peerID].stage = "installed"
    /\ ice' = [ice EXCEPT ![peerID].stage = "answered"]
    /\ last' = Did("PublishAnswer", peerID, << >>, "", 0, Was(peerID), {},
                   OfferPublishes(peerID, FALSE))
    /\ UNCHANGED <<facadeVars, registryVars, producerVars, camera, crashed, capture, buf,
                   parser, switching, reader>>

\* the ICE agent of the session of peerID has found a local candidate
OnICECandidate(peerID) ==
    /\ ~crashed
    /\ ice[peerID].stage # "none"
    /\ ice[peerID].gathered < MaxGathered
    /\ peerID \in DOMAIN peerConnections /\ peerConnections[peerID] # "closed"
    /\ ice' = [ice EXCEPT ![peerID].gathered = @ + 1]
    /\ last' = Did("OnICECandidate", peerID, << >>,
                   IF ice[peerID].stage = "processed" THEN "dropped" ELSE "handled", 0,
                   ice[peerID].stage, {},
                   IF ice[peerID].stage = "processed" THEN << >> ELSE <<Candidate(peerID)>>)
    /\ UNCHANGED <<facadeVars, registryVars, producerVars, camera, crashed, capture, buf,
                   parser, switching, reader>>

-----------------------------------------------------------------------------
(* The network, and the connection-state callbacks it starts *)

Transitions ==
    {<<"connecting", "connected">>, <<"connecting", "failed">>,
     <<"connected", "disconnected">>, <<"connected", "failed">>,
     <<"disconnected", "connected">>, <<"disconnected", "failed">>}

\* the WebRTC stack moves the connection registered under peerID to state s
\* and starts the callback
ConnectionStateChange(peerID, s) ==
    /\ ~crashed
    /\ peerID \in DOMAIN peerConnections
    /\ <<peerConnections[peerID], s>> \in Transitions
    /\ peerConnections' = [peerConnections EXCEPT ![peerID] = s]
    /\ callbacks' = callbacks \cup {Callback(peerID, s)}
    /\ last' = Did("StateChange", peerID, << >>, "", 0, Was(peerID), {}, << >>)
    /\ UNCHANGED <<mediaVars, facadeVars, wmu, producerVars, camera, crashed>>

\* OnConnectionStateChange callback, case Connected
CallbackConnected(cb) ==
    /\ ~crashed
    /\ cb.kind = "connected" /\ cb.stage = "spawned"
    /\ vmu = "free"
    /\ StartStreaming
    /\ callbacks' = callbacks \ {cb}
    /\ last' = Did("CallbackConnected", cb.peer, << >>, "", 0, "none", {}, << >>)
    /\ UNCHANGED <<mediaVars, facadeVars, peerConnections, wmu, camera, crashed>>

\* OnConnectionStateChange callback, case Disconnected, Failed, Closed:
\* the scan of the registry under w.mu
CallbackCheck(cb) ==
    /\ ~crashed
    /\ cb.kind = "down" /\ cb.stage = "spawned"
    /\ wmu = "free"
    /\ callbacks' = IF HasConnectedOther(cb.peer)
                    THEN callbacks \ {cb}
                    ELSE (callbacks \ {cb}) \cup {[cb EXCEPT !.stage = "stop"]}
    /\ last' = Did("CallbackCheck", cb.peer, << >>,
                   IF HasConnectedOther(cb.peer) THEN "keep" ELSE "stop", 0,
                   Was(cb.peer), {}, << >>)
    /\ UNCHANGED <<mediaVars, facadeVars, peerConnections, wmu, producerVars, camera, crashed>>

\* ... and, w.mu released, the call of StopStreaming when none was found
CallbackStop(cb) ==
    /\ ~crashed
    /\ cb.stage = "stop"
    /\ vmu = "free"
    /\ StopStreaming
    /\ callbacks' = callbacks \ {cb}
    /\ last' = Did("CallbackStop", cb.peer, << >>, "", 0, "none", {}, << >>)
    /\ UNCHANGED <<mediaVars, facadeVars, peerConnections, wmu, camera, crashed>>

\* what track.WriteSample returns: nil, io.ErrClosedPipe, another error
WriteSampleOutcomes == {"ok", "closedPipe", "error"}

\* if err == io.ErrClosedPipe { return }
LoopReturns(outcome) == outcome = "closedPipe"

\* len(v.frameFiles)
Files == IF camera = 0 THEN 0 ELSE NumFiles

\* streamLoop, case <-ticker.C: v.frameCounter after the increment and the
\* wrap to the first file
NextFrame ==
    IF frameCounter + 1 >= Files /\ frameCounter + 1 > 0 THEN 0 ELSE frameCounter + 1

\* one tick of streamLoop: the next file is read and written to the track;
\* outcome is what track.WriteSample returns, and the step records the index
\* of the file written.  With no file loaded the index is out of range; on
\* io.ErrClosedPipe the loop returns and leaves isStreaming as it is.
Tick(outcome) ==
    /\ ~crashed
    /\ loops > 0
    /\ IF NextFrame >= Files
       THEN /\ crashed' = TRUE
            /\ last' = Did("Tick", NoPeer, << >>, "panic", 0, "none", {}, << >>)
            /\ UNCHANGED <<frameCounter, loops>>
       ELSE /\ frameCounter' = NextFrame
            /\ loops' = IF LoopReturns(outcome) THEN loops - 1 ELSE loops
            /\ last' = Did("Tick", NoPeer, << >>, outcome, NextFrame, "none", {}, << >>)
            /\ UNCHANGED crashed
    /\ UNCHANGED <<mediaVars, facadeVars, registryVars, isStreaming, vmu, cached, camera>>

-----------------------------------------------------------------------------
(* The control facade, under rmcsMutex *)

RMCSInitOutcomes == {"errWebRTC", "errMQTT", "ok"}

\* an RMCSInit that does not test for a running instance
RMCSInitCodeUnguarded(outcome) ==
    IF outcome = "errWebRTC" THEN -1
    ELSE IF outcome = "errMQTT" THEN -2
    ELSE 0

\* the code RMCSInit returns
RMCSInitCode(outcome) ==
    IF rmcsInstance # "nil" THEN 1
    ELSE IF outcome = "errWebRTC" THEN -1
    ELSE IF outcome = "errMQTT" THEN -2
    ELSE 0

\* the NAL unit types parseInitialNALUnits caches
ParameterSets == {"sps", "pps", "idr"}

\* NewVideoStreamer: sps, pps and lastIDR are nil
NoCache == [t \in ParameterSets |-> 0]

\* what the first file of a camera directory can hold of them
FirstFiles == {ParameterSets, {}}

\* parseInitialNALUnits on the first file of camera c, which holds the NAL
\* unit types first: each one found replaces the cached one, the others
\* stay as they are
parseInitialNALUnits(old, c, first) ==
    [t \in ParameterSets |-> IF t \in first THEN c ELSE old[t]]

\* NewWebRTCManager: a manager with no session and an idle producer, holding
\* the files of the default camera when LoadH264Files finds them.  The
\* goroutines of an earlier manager act on that manager only.
NewWebRTCManager(filesFound, first) ==
    /\ peerConnections' = NoSessions
    /\ callbacks' = {}
    /\ wmu' = "free"
    /\ isStreaming' = FALSE
    /\ loops' = 0
    /\ vmu' = "free"
    /\ frameCounter' = -1
    /\ camera' = IF filesFound THEN defaultCamera ELSE 0
    /\ cached' = IF filesFound THEN parseInitialNALUnits(NoCache, defaultCamera, first)
                 ELSE NoCache

\* RMCSInit; outcome: which of NewWebRTCManager and mqttClient.Connect fail
RMCSInit(outcome, filesFound, first) ==
    /\ rmcsMutex = "free" /\ ~crashed
    /\ RMCSInitCode(outcome) = 0 => instances < MaxInstances
    /\ IF RMCSInitCode(outcome) = 0
       THEN /\ NewWebRTCManager(filesFound, first)
            /\ rmcsInstance' = "running"
            /\ instances' = instances + 1
            /\ mqttConnected' = TRUE
       ELSE UNCHANGED <<rmcsInstance, instances, mqttConnected, registryVars,
                        producerVars, camera>>
    /\ last' = Did("RMCSInit", NoPeer, << >>, outcome, RMCSInitCode(outcome),
                   rmcsInstance, {}, << >>)
    /\ UNCHANGED <<mediaVars, rmcsMutex, crashed>>

CameraInputs == {0, defaultCamera, defaultCamera + 1, NumCameras + 1}

\* an RMCSSwitchCamera that takes any camera number
RMCSSwitchCameraCodeAnyNumber(cameraNumber, filesFound) ==
    IF rmcsInstance = "nil" THEN -1
    ELSE IF ~filesFound THEN -2
    ELSE 0

\* the code RMCSSwitchCamera returns; filesFound: LoadH264Files finds files
RMCSSwitchCameraCode(cameraNumber, filesFound) ==
    IF rmcsInstance = "nil" THEN -1
    ELSE IF cameraNumber \notin 1..NumCameras \/ ~filesFound THEN -2
    ELSE 0

\* RMCSSwitchCamera(cameraNumber): on success LoadH264Files has replaced
\* frameFiles and parsed the first file, with v.mu not taken
RMCSSwitchCamera(cameraNumber, filesFound, first) ==
    /\ rmcsMutex = "free" /\ ~crashed
    /\ IF RMCSSwitchCameraCode(cameraNumber, filesFound) = 0
       THEN /\ camera' = cameraNumber
            /\ cached' = parseInitialNALUnits(cached, cameraNumber, first)
       ELSE UNCHANGED <<camera, cached>>
    /\ last' = [Did("RMCSSwitchCamera", NoPeer, << >>,
                     IF filesFound THEN "files" ELSE "noFiles",
                     RMCSSwitchCameraCode(cameraNumber, filesFound),
                     rmcsInstance, {}, << >>)
                 EXCEPT !.arg = cameraNumber]
    /\ UNCHANGED <<mediaVars, facadeVars, registryVars, isStreaming, loops, vmu, frameCounter, crashed>>

\* LoadH264Files step by step, as the other goroutines see it: no mutex of
\* the streamer is taken.  by: "rmcs", RMCSSwitchCamera under rmcsMutex, or
\* "mqtt", the handler of the camera topic.  First step, v.frameFiles = files
LoadH264FilesAssign(by, cameraNumber) ==
    /\ ~crashed
    /\ rmcsInstance = "running"
    /\ cameraNumber \in 1..NumCameras
    /\ \A s \in switching : s.by # by
    /\ IF by = "rmcs"
       THEN rmcsMutex = "free" /\ rmcsMutex' = "RMCSSwitchCamera"
       ELSE mqttConnected /\ UNCHANGED rmcsMutex
    /\ camera' = cameraNumber
    /\ switching' = switching \cup {[by |-> by, camera |-> cameraNumber]}
    /\ last' = [Did("LoadH264Files", NoPeer, << >>, "assigned", 0, "none", {}, << >>)
                 EXCEPT !.arg = cameraNumber]
    /\ UNCHANGED <<rmcsInstance, instances, mqttConnected, registryVars, producerVars,
                   crashed, capture, buf, parser, reader, ice>>

\* second step, v.parseInitialNALUnits(files[0]), and the return
LoadH264FilesParse(s, first) ==
    /\ ~crashed
    /\ s \in switching
    /\ cached' = parseInitialNALUnits(cached, s.camera, first)
    /\ switching' = switching \ {s}
    /\ rmcsMutex' = IF s.by = "rmcs" THEN "free" ELSE rmcsMutex
    /\ last' = [Did("LoadH264Files", NoPeer, << >>, "parsed", 0, "none", {}, << >>)
                 EXCEPT !.arg = s.camera]
    /\ UNCHANGED <<rmcsInstance, instances, mqttConnected, registryVars, isStreaming, loops,
                   vmu, frameCounter, camera, crashed, capture, buf, parser, reader, ice>>

DisconnectTractor == [topic |-> disconnectTractorTopic, payload |-> "robot"]

\* an RMCSStop that closes the sessions before it tells the operator side
RMCSStopStepsCloseFirst(managerFree) ==
    (IF managerFree THEN <<"closeSessions">> ELSE << >>)
        \o <<"mqttDisconnect", "publish", "publish">>

\* what RMCSStop does to a running instance, in order: the publish of
\* PublishDisconnectTractor, the publish inside MQTTClient.Disconnect, the
\* client's Disconnect, then webrtcManager.Close (reached when w.mu can be
\* taken)
RMCSStopSteps(managerFree) ==
    <<"publish", "publish", "mqttDisconnect">>
        \o (IF managerFree THEN <<"closeSessions">> ELSE << >>)

\* RMCSStop: PublishDisconnectTractor, the sleep, client.Disconnect (which
\* publishes disconnect-tractor itself), webrtcManager.Close, then the
\* instance is dropped
RMCSStop ==
    /\ rmcsMutex = "free" /\ ~crashed
    /\ IF rmcsInstance = "nil"
       THEN /\ last' = Did("RMCSStop", NoPeer, << >>, "", 0, "nil", {}, << >>)
            /\ UNCHANGED <<facadeVars, registryVars, producerVars>>
       ELSE /\ mqttConnected' = FALSE
            /\ IF wmu # "free"
               THEN /\ rmcsMutex' = "RMCSStop"
                    /\ UNCHANGED <<rmcsInstance, registryVars, producerVars>>
               ELSE /\ Close
                    /\ rmcsMutex' = IF StopBlocks THEN "RMCSStop" ELSE "free"
                    /\ rmcsInstance' = IF StopBlocks THEN rmcsInstance ELSE "nil"
            /\ UNCHANGED instances
            /\ last' = [Did("RMCSStop", NoPeer, << >>,
                            IF wmu # "free" \/ StopBlocks THEN "blocked" ELSE "", 0, "running",
                            IF wmu # "free" THEN {} ELSE DOMAIN peerConnections,
                            <<DisconnectTractor, DisconnectTractor>>)
                        EXCEPT !.trace = RMCSStopSteps(wmu = "free")]
    /\ UNCHANGED <<mediaVars, camera, crashed>>

\* an RMCSGetStatus that reports an instance that was stopped
RMCSGetStatusCodeEver == IF instances > 0 THEN 1 ELSE 0

\* the code RMCSGetStatus returns
RMCSGetStatusCode == IF rmcsInstance # "nil" THEN 1 ELSE 0

\* RMCSGetStatus
RMCSGetStatus ==
    /\ rmcsMutex = "free" /\ ~crashed
    /\ last' = Did("RMCSGetStatus", NoPeer, << >>, "", RMCSGetStatusCode,
                   rmcsInstance, {}, << >>)
    /\ UNCHANGED <<mediaVars, facadeVars, registryVars, producerVars, camera, crashed>>

-----------------------------------------------------------------------------
(* The producer that pre-loads its files: the same VideoStreamer without   *)
(* v.mu.  StartStreaming and StopStreaming read isStreaming and act on     *)
(* what they read in two steps, and other goroutines run in between.  The  *)
(* callers are the callback goroutines, one per peerID; a call in flight   *)
(* is kept in callbacks with the point it has reached.                     *)

InFlight(caller) == \E c \in callbacks : c.peer = caller

\* StartStreaming up to its two early returns
UnlockedStartStreamingCheck(caller) ==
    /\ ~InFlight(caller)
    /\ IF isStreaming \/ camera = 0
       THEN /\ last' = Did("StartStreaming", caller, << >>, "returned", 0, "none", {}, << >>)
            /\ UNCHANGED callbacks
       ELSE /\ callbacks' = callbacks \cup
                   {[peer |-> caller, kind |-> "start", stage |-> "checked"]}
            /\ last' = Did("StartStreaming", caller, << >>, "checked", 0, "none", {}, << >>)
    /\ UNCHANGED <<mediaVars, facadeVars, peerConnections, wmu, producerVars, camera, crashed>>

\* ... and from there: v.isStreaming = true; go v.streamLoop()
UnlockedStartStreamingSet(caller) ==
    /\ [peer |-> caller, kind |-> "start", stage |-> "checked"] \in callbacks
    /\ loops < MaxLoops
    /\ isStreaming' = TRUE
    /\ loops' = loops + 1
    /\ callbacks' = callbacks \ {[peer |-> caller, kind |-> "start", stage |-> "checked"]}
    /\ last' = Did("StartStreaming", caller, << >>, "started", 0, "none", {}, << >>)
    /\ UNCHANGED <<mediaVars, facadeVars, peerConnections, wmu, vmu, frameCounter, cached, camera,
                   crashed>>

\* StopStreaming: the test of v.isStreaming
UnlockedStopStreamingCheck(caller) ==
    /\ ~InFlight(caller)
    /\ IF ~isStreaming
       THEN /\ last' = Did("StopStreaming", caller, << >>, "returned", 0, "none", {}, << >>)
            /\ UNCHANGED callbacks
       ELSE /\ callbacks' = callbacks \cup
                   {[peer |-> caller, kind |-> "stop", stage |-> "checked"]}
            /\ last' = Did("StopStreaming", caller, << >>, "checked", 0, "none", {}, << >>)
    /\ UNCHANGED <<mediaVars, facadeVars, peerConnections, wmu, producerVars, camera, crashed>>

\* a streamLoop that has received from stopChan and has not yet cleared
\* isStreaming
Stopping == [peer |-> NoPeer, kind |-> "loop", stage |-> "stopping"]

\* ... and the send on stopChan: one streamLoop receives it and writes no
\* more
UnlockedStopStreamingSend(caller) ==
    /\ [peer |-> caller, kind |-> "stop", stage |-> "checked"] \in callbacks
    /\ loops > 0
    /\ loops' = loops - 1
    /\ callbacks' = (callbacks \ {[peer |-> caller, kind |-> "stop", stage |-> "checked"]})
                       \cup {Stopping}
    /\ last' = Did("StopStreaming", caller, << >>, "sent", 0, "none", {}, << >>)
    /\ UNCHANGED <<mediaVars, facadeVars, peerConnections, wmu, isStreaming, vmu, frameCounter,
                   cached, camera, crashed>>

\* streamLoop, case <-v.stopChan: v.isStreaming = false; return
UnlockedStreamLoopStop ==
    /\ Stopping \in callbacks
    /\ isStreaming' = FALSE
    /\ callbacks' = callbacks \ {Stopping}
    /\ last' = Did("streamLoop", NoPeer, << >>, "stopped", 0, "none", {}, << >>)
    /\ UNCHANGED <<mediaVars, facadeVars, peerConnections, wmu, loops, vmu, frameCounter, cached,
                   camera, crashed>>

-----------------------------------------------------------------------------
(* CameraCapture: the producer that reads the encoder's H.264 stream.      *)
(* A NAL unit is its bytes, header first; nil and the empty slice are the  *)
(* same value here, since readH264Stream never caches an empty unit.       *)

startCode == <<0, 0, 0, 1>>

\* addEmulationPrevention escapes b when two zero bytes precede it.
NeedsEscapeBelow3(b) == b < 3

NeedsEscapeOnlyZero(b) == b = 0

NeedsEscape(b) == b <= 3

RECURSIVE addEmulationPreventionFrom(_, _)
addEmulationPreventionFrom(data, zeroCount) ==
    IF data = << >> THEN << >>
    ELSE LET b == Head(data)
             insert == zeroCount = 2 /\ NeedsEscape(b)
             count == IF insert THEN 0 ELSE zeroCount
         IN  (IF insert THEN <<3>> ELSE << >>) \o <<b>>
                \o addEmulationPreventionFrom(Tail(data), IF b = 0 THEN count + 1 ELSE 0)

addEmulationPrevention(data) == addEmulationPreventionFrom(data, 0)

\* binary.BigEndian.PutUint64
RECURSIVE PutUint(_, _)
PutUint(v, bytes) ==
    IF bytes = 0 THEN << >> ELSE PutUint(v \div 256, bytes - 1) \o <<v % 256>>

PutUint64Truncated(v) == PutUint(v % 65536, 8)

PutUint64(v) == PutUint(v, 8)

createSimpleTimestampSEI(timestampUs) ==
    <<6>> \o addEmulationPrevention(<<5, 8>> \o PutUint64(timestampUs)) \o <<128>>

\* A sample handed to track.WriteSample: its Data, and for the record the
\* NAL unit it carries and the time stamped into it (-1: none).
sendNALUnitWithSEI(nalUnit, now) ==
    [Data |-> startCode \o createSimpleTimestampSEI(now) \o startCode \o nalUnit,
     nal |-> nalUnit, at |-> now]

sendNALUnitNoSEI(nalUnit) ==
    [Data |-> startCode \o nalUnit, nal |-> nalUnit, at |-> -1]

NalType(nalUnit) == nalUnit[1] % 32

\* The NAL units the encoder can deliver: an empty unit, a slice, an IDR
\* slice, an SEI, an access unit delimiter, and SPS and PPS in NumBodies
\* versions each.
SourceNALs ==
    {<< >>, <<65, 1>>, <<101, 1>>, <<6, 1>>, <<9, 1>>}
        \cup {<<103, b>> : b \in 1..NumBodies} \cup {<<104, b>> : b \in 1..NumBodies}

\* isRunning, mu and cmd are the fields of the struct (mu: "free" or its
\* holder; cmd: "nil", or the state of the encoder process); at is where the
\* goroutine of readH264Stream stands, pending the unit it is about to
\* cache, stop where a call of Stop stands
NewCameraCapture ==
    [sps |-> << >>, pps |-> << >>, lastIDR |-> << >>, waitingForConfig |-> TRUE,
     clock |-> 0, read |-> 0, track |-> << >>,
     isRunning |-> FALSE, mu |-> "free", cmd |-> "nil", at |-> "none", pending |-> << >>,
     stop |-> "idle"]

\* case 7, case 8, case 5: the cache after the switch statement
Cache(c, nalUnit) ==
    IF NalType(nalUnit) = 7 THEN [c EXCEPT !.sps = nalUnit]
    ELSE IF NalType(nalUnit) = 8 THEN [c EXCEPT !.pps = nalUnit]
    ELSE IF NalType(nalUnit) = 5 THEN [c EXCEPT !.lastIDR = nalUnit]
    ELSE c

ConfigReady(c) == c.waitingForConfig /\ c.sps # << >> /\ c.pps # << >>

\* waitingForConfig after the switch statement: frames are skipped while
\* it is true
WaitingNever(c, initial) == FALSE

Waiting(c, initial) == c.waitingForConfig /\ ~initial

IDRPrefixPPSFirst(c) ==
    (IF c.pps # << >> THEN <<sendNALUnitNoSEI(c.pps)>> ELSE << >>)
        \o (IF c.sps # << >> THEN <<sendNALUnitNoSEI(c.sps)>> ELSE << >>)

IDRPrefix(c) ==
    (IF c.sps # << >> THEN <<sendNALUnitNoSEI(c.sps)>> ELSE << >>)
        \o (IF c.pps # << >> THEN <<sendNALUnitNoSEI(c.pps)>> ELSE << >>)

NeedsSEIOnlyIDR(nalType) == nalType = 5

NeedsSEI(nalType) == nalType = 1 \/ nalType = 5

\* One turn of the inner loop of readH264Stream on the next NAL unit; now
\* is what time.Now() returns if the unit is sent with an SEI.
ReadNAL(nalUnit, now) ==
    /\ capture.read < MaxNALs
    /\ now \in capture.clock..MaxClock
    /\ IF nalUnit = << >>
       THEN capture' = [capture EXCEPT !.read = @ + 1]
       ELSE LET c == Cache(capture, nalUnit)
                initial == NalType(nalUnit) = 8 /\ ConfigReady(c)
                waiting == Waiting(c, initial)
                stamped == ~waiting /\ NeedsSEI(NalType(nalUnit))
                config == IF initial
                          THEN <<sendNALUnitNoSEI(c.sps), sendNALUnitNoSEI(c.pps)>>
                          ELSE << >>
                frame == IF waiting THEN << >>
                         ELSE (IF NalType(nalUnit) = 5 THEN IDRPrefix(c) ELSE << >>)
                                \o <<IF NeedsSEI(NalType(nalUnit))
                                     THEN sendNALUnitWithSEI(nalUnit, now)
                                     ELSE sendNALUnitNoSEI(nalUnit)>>
            IN  /\ stamped \/ now = capture.clock
                /\ capture' = [c EXCEPT !.waitingForConfig = waiting,
                                        !.clock = now,
                                        !.read = @ + 1,
                                        !.track = @ \o config \o frame]
    /\ nalUnit = << >> => now = capture.clock
    /\ UNCHANGED <<facadeVars, registryVars, producerVars, camera, crashed, switching,
                   reader, ice, buf, parser, last>>

-----------------------------------------------------------------------------
(* CameraCapture.Start and Stop and the goroutine of readH264Stream, step  *)
(* by step: Stop holds c.mu while it sends on the unbuffered stopChan, the *)
(* reader receives from stopChan only in the select at the top of its      *)
(* loop, and locks c.mu to cache an SPS, a PPS or an IDR.                  *)

\* Start; started: cmd.Start() returns nil
CaptureStart(started) ==
    /\ capture.mu = "free"
    /\ capture.stop # "sending"
    /\ IF capture.isRunning \/ ~started THEN UNCHANGED capture
       ELSE capture' = [capture EXCEPT !.isRunning = TRUE, !.cmd = "running",
                                       !.at = "select", !.pending = << >>,
                                       !.stop = "idle"]
    /\ UNCHANGED <<facadeVars, registryVars, producerVars, camera, crashed, switching,
                   reader, ice, buf, parser, last>>

\* the select of readH264Stream: case <-c.stopChan when Stop is at its send,
\* default otherwise
ReaderSelect ==
    /\ capture.at = "select"
    /\ capture' = IF capture.stop = "sending"
                  THEN [capture EXCEPT !.at = "exited", !.stop = "sent"]
                  ELSE [capture EXCEPT !.at = "read"]
    /\ UNCHANGED <<facadeVars, registryVars, producerVars, camera, crashed, switching,
                   reader, ice, buf, parser, last>>

\* reader.Read returns bytes of the running encoder: nalUnit is the unit the
\* buffer then holds whole, << >> for none
ReaderRead(nalUnit) ==
    /\ capture.at = "read"
    /\ capture.cmd = "running"
    /\ capture' = IF nalUnit # << >> /\ NalType(nalUnit) \in {5, 7, 8}
                  THEN [capture EXCEPT !.at = "lock", !.pending = nalUnit]
                  ELSE [capture EXCEPT !.at = "select"]
    /\ UNCHANGED <<facadeVars, registryVars, producerVars, camera, crashed, switching,
                   reader, ice, buf, parser, last>>

\* reader.Read returns io.EOF or an error: the encoder has ended
ReaderEOF ==
    /\ capture.at = "read"
    /\ capture.cmd \in {"ended", "killed"}
    /\ capture' = [capture EXCEPT !.at = "exited"]
    /\ UNCHANGED <<facadeVars, registryVars, producerVars, camera, crashed, switching,
                   reader, ice, buf, parser, last>>

\* c.mu.Lock(); the copy into the cache; c.mu.Unlock()
ReaderLock ==
    /\ capture.at = "lock"
    /\ capture.mu = "free"
    /\ capture' = [Cache(capture, capture.pending) EXCEPT !.at = "select", !.pending = << >>]
    /\ UNCHANGED <<facadeVars, registryVars, producerVars, camera, crashed, switching,
                   reader, ice, buf, parser, last>>

\* the encoder process ends by itself
EncoderEnds ==
    /\ capture.cmd = "running"
    /\ capture' = [capture EXCEPT !.cmd = "ended"]
    /\ UNCHANGED <<facadeVars, registryVars, producerVars, camera, crashed, switching,
                   reader, ice, buf, parser, last>>

\* Stop up to the send on stopChan
CaptureStop ==
    /\ capture.mu = "free"
    /\ capture.stop # "sending"
    /\ IF ~capture.isRunning THEN UNCHANGED capture
       ELSE capture' = [capture EXCEPT !.mu = "Stop", !.stop = "sending"]
    /\ UNCHANGED <<facadeVars, registryVars, producerVars, camera, crashed, switching,
                   reader, ice, buf, parser, last>>

\* ... and from the send on: Process.Kill, isRunning = false, the unlock
CaptureStopKill ==
    /\ capture.stop = "sent"
    /\ capture' = [capture EXCEPT !.cmd = "killed", !.isRunning = FALSE, !.mu = "free",
                                  !.stop = "returned"]
    /\ UNCHANGED <<facadeVars, registryVars, producerVars, camera, crashed, switching,
                   reader, ice, buf, parser, last>>

-----------------------------------------------------------------------------
(* H264Parser: splitting a buffer into NAL units and joining them again.   *)

At4(data, i) ==
    data[i + 1] = 0 /\ data[i + 2] = 0 /\ data[i + 3] = 0 /\ data[i + 4] = 1

At3(data, i) == data[i + 1] = 0 /\ data[i + 2] = 0 /\ data[i + 3] = 1

isAnnexBFormat(data) ==
    /\ Len(data) >= 4
    /\ At4(data, 0) \/ At3(data, 0)

RECURSIVE parseLengthPrefixedFrom(_, _, _)
parseLengthPrefixedFrom(data, i, nalUnits) ==
    IF i + 4 > Len(data) THEN nalUnits
    ELSE LET length == data[i + 1] * (2 ^ 24) + data[i + 2] * (2 ^ 16)
                          + data[i + 3] * (2 ^ 8) + data[i + 4]
         IN  IF i + 4 + length > Len(data) \/ length <= 0 THEN nalUnits
             ELSE parseLengthPrefixedFrom(data, i + 4 + length,
                      Append(nalUnits, SubSeq(data, i + 5, i + 4 + length)))

parseLengthPrefixedFormat(data) == parseLengthPrefixedFrom(data, 0, << >>)

findNextStartCode(data, start) ==
    LET found == {i \in start..(Len(data) - 4) : At4(data, i) \/ At3(data, i)}
    IN  IF found = {} THEN -1 ELSE CHOOSE i \in found : \A j \in found : i <= j

RECURSIVE parseAnnexBFrom(_, _, _)
parseAnnexBFrom(data, i, nalUnits) ==
    IF i >= Len(data) - 3 THEN nalUnits
    ELSE IF At4(data, i) \/ At3(data, i)
    THEN LET start == IF At4(data, i) THEN i + 4 ELSE i + 3
             next == findNextStartCode(data, start)
             nextStart == IF next = -1 THEN Len(data) ELSE next
         IN  parseAnnexBFrom(data, nextStart,
                 IF nextStart > start
                 THEN Append(nalUnits, SubSeq(data, start + 1, nextStart))
                 ELSE nalUnits)
    ELSE parseAnnexBFrom(data, i + 1, nalUnits)

parseAnnexBFormat(data) == parseAnnexBFrom(data, 0, << >>)

FindNALUnits(data) ==
    IF isAnnexBFormat(data) THEN parseAnnexBFormat(data)
    ELSE parseLengthPrefixedFormat(data)

RECURSIVE ConvertToAnnexB(_)
ConvertToAnnexB(nalUnits) ==
    IF nalUnits = << >> THEN << >>
    ELSE startCode \o Head(nalUnits) \o ConvertToAnnexB(Tail(nalUnits))

NoBuffer == [data |-> << >>, op |-> "", nals |-> << >>, out |-> << >>, again |-> << >>]

Buffers(alphabet, n) == UNION {[1..k -> alphabet] : k \in 0..n}

Split ==
    /\ buf.op = ""
    /\ buf' = [buf EXCEPT !.op = "FindNALUnits", !.nals = FindNALUnits(buf.data)]
    /\ UNCHANGED <<facadeVars, registryVars, producerVars, camera, crashed, switching,
                   reader, ice, capture, parser,
                   last>>

Join ==
    /\ buf.op = "FindNALUnits"
    /\ buf' = [buf EXCEPT !.op = "ConvertToAnnexB", !.out = ConvertToAnnexB(buf.nals)]
    /\ UNCHANGED <<facadeVars, registryVars, producerVars, camera, crashed, switching,
                   reader, ice, capture, parser,
                   last>>

SplitAgain ==
    /\ buf.op = "ConvertToAnnexB"
    /\ buf' = [buf EXCEPT !.op = "FindNALUnitsAgain", !.again = FindNALUnits(buf.out)]
    /\ UNCHANGED <<facadeVars, registryVars, producerVars, camera, crashed, switching,
                   reader, ice, capture, parser,
                   last>>

Escape ==
    /\ buf.op = ""
    /\ buf' = [buf EXCEPT !.op = "addEmulationPrevention",
                          !.out = addEmulationPrevention(buf.data)]
    /\ UNCHANGED <<facadeVars, registryVars, producerVars, camera, crashed, switching,
                   reader, ice, capture, parser,
                   last>>

\* extractNextNALUnit: what is kept of a buffer with no start code in it
RetainedNone(buffer) == << >>

Retained(buffer) ==
    IF Len(buffer) > 3 THEN SubSeq(buffer, Len(buffer) - 2, Len(buffer)) ELSE buffer

\* the offsets below len(buffer)-3, from offset from on, at which the scan of
\* extractNextNALUnit sees a start code
StartCodes(buffer, from) ==
    {i \in from..(Len(buffer) - 4) :
        At3(buffer, i) \/ (i < Len(buffer) - 4 /\ At4(buffer, i))}

extractNextNALUnit(buffer) ==
    LET first == StartCodes(buffer, 0)
    IN  IF first = {}
        THEN [nalUnit |-> << >>, remaining |-> Retained(buffer), found |-> FALSE]
        ELSE LET startIdx == CHOOSE i \in first : \A j \in first : i <= j
                 startCodeLen == IF At3(buffer, startIdx) THEN 3 ELSE 4
                 next == StartCodes(buffer, startIdx + startCodeLen)
             IN  IF next = {}
                 THEN [nalUnit |-> << >>, remaining |-> buffer, found |-> FALSE]
                 ELSE LET nextIdx == CHOOSE i \in next : \A j \in next : i <= j
                      IN  [nalUnit |-> SubSeq(buffer, startIdx + startCodeLen + 1, nextIdx),
                           remaining |-> SubSeq(buffer, nextIdx + 1, Len(buffer)),
                           found |-> TRUE]

\* the inner loop of readH264Stream: units are taken from the buffer until
\* extractNextNALUnit finds none
RECURSIVE Drain(_, _)
Drain(buffer, nals) ==
    LET r == extractNextNALUnit(buffer)
    IN  IF r.found THEN Drain(r.remaining, Append(nals, r.nalUnit))
        ELSE [buffer |-> r.remaining, nals |-> nals]

\* stream: all the encoder writes; rest: what has not been read yet; buffer
\* and nals: the buffer of readH264Stream and the units taken from it
NoStream == [stream |-> << >>, rest |-> << >>, buffer |-> << >>, nals |-> << >>]

\* reader.Read returns the next n bytes, which are appended to the buffer
ReadChunk(n) ==
    /\ n \in 1..Len(reader.rest)
    /\ LET d == Drain(reader.buffer \o SubSeq(reader.rest, 1, n), reader.nals)
       IN  reader' = [reader EXCEPT !.rest = SubSeq(@, n + 1, Len(@)),
                                    !.buffer = d.buffer, !.nals = d.nals]
    /\ UNCHANGED <<facadeVars, registryVars, producerVars, camera, crashed, switching,
                   capture, buf, parser, ice, last>>

\* &H264Parser{}: no SPS, no PPS; frames counts the calls made, out is what
\* the last call returned
NewH264Parser == [sps |-> << >>, pps |-> << >>, frames |-> 0, out |-> << >>]

\* the NAL units FindNALUnits can hand to ProcessNALUnits
FrameNALs ==
    {<< >>, <<65, 1>>, <<101, 1>>, <<6, 1>>}
        \cup {<<103, b>> : b \in 1..NumBodies} \cup {<<104, b>> : b \in 1..NumBodies}

Frames == UNION {[1..k -> FrameNALs] : k \in 1..MaxFrameNALs}

\* nalType == NAL_UNIT_TYPE_IDR && len(p.sps) > 0 && len(p.pps) > 0
IDRWithConfig(p) == p.sps # << >> /\ p.pps # << >>

\* ProcessNALUnits on parser p: the parser and the units returned
RECURSIVE ProcessNALUnitsFrom(_, _)
ProcessNALUnitsFrom(p, nalUnits) ==
    IF nalUnits = << >> THEN p
    ELSE LET nalUnit == Head(nalUnits)
             q == IF nalUnit = << >> THEN p
                  ELSE IF NalType(nalUnit) = 7
                  THEN [p EXCEPT !.sps = nalUnit, !.out = Append(@, nalUnit)]
                  ELSE IF NalType(nalUnit) = 8
                  THEN [p EXCEPT !.pps = nalUnit, !.out = Append(@, nalUnit)]
                  ELSE IF NalType(nalUnit) = 5 /\ IDRWithConfig(p)
                  THEN [p EXCEPT !.out = @ \o <<p.sps, p.pps, nalUnit>>]
                  ELSE [p EXCEPT !.out = Append(@, nalUnit)]
         IN  ProcessNALUnitsFrom(q, Tail(nalUnits))

ProcessNALUnits(p, nalUnits) == ProcessNALUnitsFrom([p EXCEPT !.out = << >>], nalUnits)

\* one tick of the stream loop that parses: the NAL units of the next frame
\* go through ProcessNALUnits and are written as one sample
ProcessFrame(nalUnits) ==
    /\ parser.frames < MaxFrames
    /\ parser' = [ProcessNALUnits(parser, nalUnits) EXCEPT !.frames = @ + 1]
    /\ UNCHANGED <<facadeVars, registryVars, producerVars, camera, crashed, switching,
                   reader, ice, capture, buf,
                   last>>

\* the bytes a timestamp can have: zero, bytes that are escaped after two
\* zeros, and the largest one that keeps the value in range here
TimestampBytes == {0, 1, 3, 127}

Timestamps ==
    {((a * 256 + b) * 256 + c) * 256 + d : a, b, c, d \in TimestampBytes}

CreateSEI(timestampUs) ==
    /\ buf.op = ""
    /\ buf' = [buf EXCEPT !.op = "createSimpleTimestampSEI",
                          !.out = createSimpleTimestampSEI(timestampUs)]
    /\ last' = [Did("createSimpleTimestampSEI", NoPeer, << >>, "", 0, "none", {}, << >>)
                 EXCEPT !.arg = timestampUs]
    /\ UNCHANGED <<facadeVars, registryVars, producerVars, camera, crashed, switching,
                   reader, ice, capture, parser>>

-----------------------------------------------------------------------------
(* The signaling service at work: RMCSInit has returned 0, the manager     *)
(* holds the files of the default camera, the MQTT client is subscribed.   *)

Init ==
    /\ rmcsInstance = "running"
    /\ instances = 1
    /\ rmcsMutex = "free"
    /\ mqttConnected = TRUE
    /\ peerConnections = NoSessions
    /\ callbacks = {}
    /\ wmu = "free"
    /\ camera = defaultCamera
    /\ cached = parseInitialNALUnits(NoCache, defaultCamera, ParameterSets)
    /\ frameCounter = -1
    /\ isStreaming = FALSE
    /\ loops = 0
    /\ vmu = "free"
    /\ crashed = FALSE
    /\ capture = NewCameraCapture
    /\ parser = NewH264Parser
    /\ switching = {}
    /\ last = NoSteps
    /\ buf = NoBuffer
    /\ reader = NoStream
    /\ ice = NoCandidates

Next ==
    \/ \E p \in PeerIDs, outcome \in ProcessOfferOutcomes :
          OfferHandler(PeerTopic(p, offerSuffix), outcome)
    \/ \E p \in PeerIDs : DisconnectHandler(PeerTopic(p, disconnectClientSuffix))
    \/ \E p \in PeerIDs, validJSON \in BOOLEAN, n \in 0..MaxCandidates :
          CandidateHandler(PeerTopic(p, candidateRobotSuffix), validJSON, n)
    \/ CloseManager
    \/ \E p \in PeerIDs, s \in {"connected", "disconnected", "failed"} :
          ConnectionStateChange(p, s)
    \/ \E cb \in callbacks : CallbackConnected(cb)
    \/ \E cb \in callbacks : CallbackCheck(cb)
    \/ \E cb \in callbacks : CallbackStop(cb)

Spec == Init /\ [][Next]_vars

-----------------------------------------------------------------------------
(* The embedding application drives the facade: the process has started    *)
(* and RMCSInit has not been called.                                       *)

Idle ==
    /\ rmcsInstance = "nil"
    /\ instances = 0
    /\ rmcsMutex = "free"
    /\ mqttConnected = FALSE
    /\ peerConnections = NoSessions
    /\ callbacks = {}
    /\ wmu = "free"
    /\ camera = 0
    /\ cached = NoCache
    /\ frameCounter = -1
    /\ isStreaming = FALSE
    /\ loops = 0
    /\ vmu = "free"
    /\ crashed = FALSE
    /\ capture = NewCameraCapture
    /\ parser = NewH264Parser
    /\ switching = {}
    /\ ice = NoCandidates
    /\ last = NoSteps

NotInitialized == Idle /\ reader = NoStream

InitFacade == NotInitialized /\ buf = NoBuffer

NextFacade ==
    \/ \E outcome \in RMCSInitOutcomes, filesFound \in BOOLEAN :
          RMCSInit(outcome, filesFound, ParameterSets)
    \/ \E n \in CameraInputs, filesFound \in BOOLEAN :
          RMCSSwitchCamera(n, filesFound, ParameterSets)
    \/ RMCSStop
    \/ RMCSGetStatus
    \/ \E p \in PeerIDs :
          OfferHandler(PeerTopic(p, offerSuffix), "ok")
    \/ \E p \in PeerIDs, s \in {"connected", "disconnected", "failed"} :
          ConnectionStateChange(p, s)
    \/ \E cb \in callbacks : CallbackConnected(cb)
    \/ \E cb \in callbacks : CallbackCheck(cb)
    \/ \E cb \in callbacks : CallbackStop(cb)

SpecFacade == InitFacade /\ [][NextFacade]_vars

-----------------------------------------------------------------------------
(* Sessions come and go one peer at a time: the service at work, without   *)
(* Close.                                                                  *)

NextSessions ==
    \/ \E p \in PeerIDs, outcome \in ProcessOfferOutcomes :
          OfferHandler(PeerTopic(p, offerSuffix), outcome)
    \/ \E p \in PeerIDs : DisconnectHandler(PeerTopic(p, disconnectClientSuffix))
    \/ \E p \in PeerIDs, s \in {"connected", "disconnected", "failed"} :
          ConnectionStateChange(p, s)
    \/ \E cb \in callbacks : CallbackConnected(cb)
    \/ \E cb \in callbacks : CallbackCheck(cb)
    \/ \E cb \in callbacks : CallbackStop(cb)

SpecSessions == Init /\ [][NextSessions]_vars

-----------------------------------------------------------------------------
(* The producer without the lock, called from the callback goroutines *)

NextUnlocked ==
    \/ \E p \in PeerIDs : UnlockedStartStreamingCheck(p)
    \/ \E p \in PeerIDs : UnlockedStartStreamingSet(p)
    \/ \E p \in PeerIDs : UnlockedStopStreamingCheck(p)
    \/ \E p \in PeerIDs : UnlockedStopStreamingSend(p)
    \/ UnlockedStreamLoopStop

SpecUnlocked == Init /\ [][NextUnlocked]_vars

-----------------------------------------------------------------------------
(* The file producer: the application makes the instance and switches      *)
(* cameras while sessions start and stop the stream loop and the loop      *)
(* ticks.                                                                  *)

NextProducer ==
    \/ \E filesFound \in BOOLEAN, first \in FirstFiles : RMCSInit("ok", filesFound, first)
    \/ \E n \in CameraInputs, filesFound \in BOOLEAN, first \in FirstFiles :
          RMCSSwitchCamera(n, filesFound, first)
    \/ OfferHandler(PeerTopic(<<"a">>, offerSuffix), "ok")
    \/ \E s \in {"connected", "disconnected", "failed"} : ConnectionStateChange(<<"a">>, s)
    \/ \E cb \in callbacks : CallbackConnected(cb)
    \/ \E cb \in callbacks : CallbackCheck(cb)
    \/ \E cb \in callbacks : CallbackStop(cb)
    \/ \E outcome \in WriteSampleOutcomes : Tick(outcome)

SpecProducer == InitFacade /\ [][NextProducer]_vars

-----------------------------------------------------------------------------
(* Camera switches from the application and from the camera topic while a  *)
(* stream loop ticks; every directory has files and a complete first file. *)

NextSwitch ==
    \/ RMCSInit("ok", TRUE, ParameterSets)
    \/ \E by \in {"rmcs", "mqtt"}, n \in CameraInputs : LoadH264FilesAssign(by, n)
    \/ \E s \in switching : LoadH264FilesParse(s, ParameterSets)
    \/ OfferHandler(PeerTopic(<<"a">>, offerSuffix), "ok")
    \/ ConnectionStateChange(<<"a">>, "connected")
    \/ \E cb \in callbacks : CallbackConnected(cb)
    \/ Tick("ok")

SpecSwitch == InitFacade /\ [][NextSwitch]_vars

-----------------------------------------------------------------------------
(* The camera producer reading what the encoder delivers, from Start on.   *)

NextCamera == \E nalUnit \in SourceNALs, now \in 0..MaxClock : ReadNAL(nalUnit, now)

SpecCamera == InitFacade /\ [][NextCamera]_vars

-----------------------------------------------------------------------------
(* The parser on every buffer of at most MaxLen bytes: a zero, a one, and  *)
(* a byte that is a length or a NAL header.                                *)

ParserBytes == {0, 1, 4}

InitParser ==
    /\ NotInitialized
    /\ \E data \in Buffers(ParserBytes, MaxLen) : buf = [NoBuffer EXCEPT !.data = data]

NextParser == Split \/ Join \/ SplitAgain

SpecParser == InitParser /\ [][NextParser]_vars

-----------------------------------------------------------------------------
(* addEmulationPrevention on every payload of at most MaxPayload bytes:    *)
(* zero, bytes that are escaped after two zeros, and one that is not.      *)

PayloadBytes == {0, 1, 2, 3, 4}

InitEscape ==
    /\ NotInitialized
    /\ \E data \in Buffers(PayloadBytes, MaxPayload) : buf = [NoBuffer EXCEPT !.data = data]

NextEscape == Escape

SpecEscape == InitEscape /\ [][NextEscape]_vars

-----------------------------------------------------------------------------
(* createSimpleTimestampSEI on every timestamp of four bytes from          *)
(* TimestampBytes.                                                         *)

NextSEI == \E timestampUs \in Timestamps : CreateSEI(timestampUs)

SpecSEI == InitFacade /\ [][NextSEI]_vars

-----------------------------------------------------------------------------
(* The stream loop that parses its frames, on every sequence of MaxFrames  *)
(* frames of at most MaxFrameNALs NAL units.                               *)

NextFrames == \E nalUnits \in Frames : ProcessFrame(nalUnits)

SpecFrames == InitFacade /\ [][NextFrames]_vars

-----------------------------------------------------------------------------
(* readH264Stream reading a stream in every sequence of chunks: every      *)
(* stream of at most MaxStream zeros and ones, and every stream of at most *)
(* MaxMixed bytes that are a zero, a one or another byte of a NAL body.    *)

Streams == Buffers({0, 1}, MaxStream) \cup Buffers({0, 1, 5}, MaxMixed)

InitChunks ==
    /\ Idle /\ buf = NoBuffer
    /\ \E data \in Streams : reader = [NoStream EXCEPT !.stream = data, !.rest = data]

NextChunks == \E n \in 1..MaxStream : ReadChunk(n)

SpecChunks == InitChunks /\ [][NextChunks]_vars

-----------------------------------------------------------------------------
(* FindNALUnits on the files of a camera directory: every length-prefixed  *)
(* file of at most MaxUnits NAL units that are short, of at most MaxBody   *)
(* bytes, or of the length whose prefix begins 00 00 01.                   *)

\* a NAL unit of 256 bytes, the shortest whose length is written 00 00 01 00
LongBody == [i \in 1..256 |-> 5]

Bodies == (Buffers({0, 1, 5}, MaxBody) \ {<< >>}) \cup {LongBody}

\* the file format parseLengthPrefixedFormat reads: each NAL unit after its
\* length in four bytes, most significant first
RECURSIVE LengthPrefixed(_)
LengthPrefixed(nalUnits) ==
    IF nalUnits = << >> THEN << >>
    ELSE PutUint(Len(Head(nalUnits)), 4) \o Head(nalUnits) \o LengthPrefixed(Tail(nalUnits))

FrameFiles == UNION {[1..k -> Bodies] : k \in 1..MaxUnits}

InitFiles ==
    /\ NotInitialized
    /\ \E nalUnits \in FrameFiles : buf = [NoBuffer EXCEPT !.data = LengthPrefixed(nalUnits)]

NextFiles == Split

SpecFiles == InitFiles /\ [][NextFiles]_vars

-----------------------------------------------------------------------------
(* Offers arrive while the ICE agents of the sessions gather candidates.   *)

NextSignaling ==
    \/ \E p \in PeerIDs, outcome \in ProcessOfferOutcomes :
          OfferProcess(PeerTopic(p, offerSuffix), outcome)
    \/ \E p \in PeerIDs : OfferInstall(p)
    \/ \E p \in PeerIDs : OfferAnswer(p)
    \/ \E p \in PeerIDs : OnICECandidate(p)

SpecSignaling == Init /\ [][NextSignaling]_vars

-----------------------------------------------------------------------------
(* The camera producer started and stopped while its reader runs and the   *)
(* encoder delivers NAL units or ends.                                     *)

NextCapture ==
    \/ \E started \in BOOLEAN : CaptureStart(started)
    \/ ReaderSelect
    \/ \E nalUnit \in SourceNALs : ReaderRead(nalUnit)
    \/ ReaderEOF
    \/ ReaderLock
    \/ EncoderEnds
    \/ CaptureStop
    \/ CaptureStopKill

SpecCapture == InitFacade /\ [][NextCapture]_vars

-----------------------------------------------------------------------------
(* Properties of the registry and the producer *)

\* C1: once the connection-state callbacks have run, the producer is
\* streaming if and only if some connection in the registry is Connected.
C1_StreamingIffConnected ==
    callbacks = {} =>
        (isStreaming <=>
            \E id \in DOMAIN peerConnections : peerConnections[id] = "connected")

\* C2: once the connection-state callbacks have run, no peerID is
\* registered with a connection that is closed or has failed.
C2_RegisteredIffOpen ==
    callbacks = {} =>
        \A id \in DOMAIN peerConnections :
            peerConnections[id] \notin {"failed", "closed"}

\* C5: at most one streamLoop goroutine writes samples at any time.
C5_SingleWriter == loops <= 1

\* C6: when every session has been removed by DisconnectPeer and no callback
\* is left to run, the producer is idle and DisconnectPeer has returned.
C6_IdleAfterDisconnects ==
    (peerConnections = NoSessions /\ callbacks = {}) =>
        (~isStreaming /\ loops = 0 /\ wmu = "free")

\* C3: a ProcessOffer for a peerID that has a session closes the connection
\* registered under that peerID and no other, leaves every other peer's
\* entry as it was, and leaves the number of registry entries unchanged.
C3_ReplaceClosesOne ==
    [][(last'.op = "Offer" /\ last'.was # "none") =>
          /\ last'.closed = {last'.peer}
          /\ last'.was # "closed" => Callback(last'.peer, "closed") \in callbacks'
          /\ callbacks' \ callbacks \subseteq {Callback(last'.peer, "closed")}
          /\ \A q \in DOMAIN peerConnections \ {last'.peer} :
                /\ q \in DOMAIN peerConnections'
                /\ peerConnections'[q] = peerConnections[q]
          /\ Cardinality(DOMAIN peerConnections') = Cardinality(DOMAIN peerConnections)
      ]_vars

\* C3 witness: an offer replaced a Connected session while another peer
\* was Connected
C3_Witness ==
    /\ last.op = "Offer" /\ last.was = "connected" /\ last.ret = "ok"
    /\ \E q \in DOMAIN peerConnections :
          q # last.peer /\ peerConnections[q] = "connected"

\* C4: an offer received on base/P/offer that ProcessOffer accepts causes
\* exactly one publish, on base/P/answer for the P of the offer topic; an
\* offer that ProcessOffer refuses causes no publish.
C4_OneAnswerPerAcceptedOffer ==
    last.op = "Offer" =>
        last.pubs =
            IF last.ret = "ok"
            THEN <<[topic |-> SubSeq(last.topic, 1, Len(last.topic) - Len(offerSuffix))
                                 \o answerSuffix,
                    payload |-> "answerSDP"]>>
            ELSE << >>

\* C4 witness: an accepted offer for a peer whose session was Connected
C4_Witness ==
    /\ last.op = "Offer" /\ last.ret = "ok" /\ last.was = "connected"
    /\ Len(last.pubs) = 1

\* C7: DisconnectPeer(P) closes and removes only the session registered
\* under P; every other session stays registered in the state it had; when
\* another session is Connected the producer is left as it is; for a P
\* without a session it returns nil and changes nothing.
C7_DisconnectOnlyThatPeer ==
    [][last'.op = "Disconnect" =>
          /\ last'.closed \subseteq {last'.peer}
          /\ last'.peer \notin DOMAIN peerConnections'
          /\ callbacks' \ callbacks \subseteq {Callback(last'.peer, "closed")}
          /\ \A q \in DOMAIN peerConnections \ {last'.peer} :
                /\ q \in DOMAIN peerConnections'
                /\ peerConnections'[q] = peerConnections[q]
          /\ (\E q \in DOMAIN peerConnections \ {last'.peer} :
                 peerConnections[q] = "connected")
                => UNCHANGED producerVars
          /\ last'.peer \notin DOMAIN peerConnections =>
                /\ last'.ret = "nil"
                /\ UNCHANGED <<peerConnections, callbacks, wmu, producerVars>>
      ]_vars

\* C7 witness: a Connected peer was disconnected while another peer is
\* Connected and the producer streams
C7_Witness ==
    /\ last.op = "Disconnect" /\ last.was = "connected"
    /\ isStreaming
    /\ \E q \in DOMAIN peerConnections : peerConnections[q] = "connected"

\* C8: a candidate/robot message changes neither the registry nor the
\* producer, whether its payload is dropped as invalid JSON or not, and
\* nothing is forwarded for a peerID without a session.
C8_CandidateChangesNothing ==
    [][last'.op = "Candidate" =>
          /\ UNCHANGED <<peerConnections, callbacks, wmu, producerVars>>
          /\ last'.was = "none" => last'.ret # "forwarded"
      ]_vars

\* C8 witness: a candidate for a peer without a session arrived while
\* another peer was Connected and the producer was streaming
C8_Witness ==
    /\ last.op = "Candidate" /\ last.ret = "noPeerConnection"
    /\ isStreaming
    /\ \E q \in DOMAIN peerConnections : peerConnections[q] = "connected"

-----------------------------------------------------------------------------
(* Properties of the control facade *)

\* C9: RMCSInit returns 1 when an instance is running and then changes
\* nothing of it; otherwise -1 when the WebRTC manager cannot be created,
\* -2 when the MQTT connect fails, and 0 when it made the one new instance.
C9_InitCodes ==
    [][last'.op = "RMCSInit" =>
          /\ last'.code = (IF rmcsInstance = "running" THEN 1
                           ELSE IF last'.ret = "errWebRTC" THEN -1
                           ELSE IF last'.ret = "errMQTT" THEN -2
                           ELSE 0)
          /\ last'.code = 1 =>
                UNCHANGED <<facadeVars, registryVars, producerVars, camera>>
          /\ last'.code = 0 =>
                /\ rmcsInstance' = "running" /\ mqttConnected'
                /\ instances' = instances + 1
          /\ last'.code < 0 => UNCHANGED <<facadeVars, registryVars, producerVars, camera>>
      ]_vars

\* C9 witness: RMCSInit returned 1 on an instance with a session and a
\* streaming producer
C9_Witness ==
    /\ last.op = "RMCSInit" /\ last.code = 1
    /\ isStreaming /\ peerConnections # NoSessions

\* C10: the instance exists from an RMCSInit that returned 0 until the next
\* RMCSStop and at no other time (a failed RMCSInit, RMCSSwitchCamera and
\* RMCSGetStatus leave it as it is), RMCSGetStatus returns 1 exactly when it
\* exists, and RMCSSwitchCamera returns -1 when it does not.
C10_StatusFollowsInitAndStop ==
    [][/\ (last'.op = "RMCSInit" /\ last'.code = 0) => rmcsInstance' = "running"
       /\ (last'.op = "RMCSInit" /\ last'.code # 0) => rmcsInstance' = rmcsInstance
       /\ (last'.op = "RMCSStop" /\ last'.ret # "blocked") => rmcsInstance' = "nil"
       /\ last'.op \notin {"RMCSInit", "RMCSStop"} => rmcsInstance' = rmcsInstance
       /\ last'.op = "RMCSGetStatus" =>
             last'.code = (IF rmcsInstance = "running" THEN 1 ELSE 0)
       /\ (last'.op = "RMCSSwitchCamera" /\ rmcsInstance = "nil") => last'.code = -1
      ]_vars

\* C10 witness: RMCSGetStatus returned 1 on the second instance, made after
\* the first was stopped
C10_Witness ==
    /\ last.op = "RMCSGetStatus" /\ last.code = 1
    /\ instances = 2

\* C11: RMCSStop on a running instance publishes disconnect-tractor before
\* it disconnects the MQTT client and disconnects the MQTT client before it
\* closes the sessions; once it has returned, the status stays 0 until the
\* next RMCSInit, and RMCSGetStatus returns that status.
C11_StopOrder ==
    [][LET At(x) == {i \in 1..Len(last'.trace) : last'.trace[i] = x}
       IN  /\ (last'.op = "RMCSStop" /\ last'.was = "running") =>
                 /\ At("publish") # {}
                 /\ Cardinality(At("mqttDisconnect")) = 1
                 /\ Len(last'.pubs) = Cardinality(At("publish"))
                 /\ \A i \in 1..Len(last'.pubs) : last'.pubs[i] = DisconnectTractor
                 /\ \A i \in At("publish"), j \in At("mqttDisconnect") : i < j
                 /\ \A j \in At("mqttDisconnect"), k \in At("closeSessions") : j < k
                 /\ ~mqttConnected'
                 /\ last'.ret # "blocked" =>
                       /\ Cardinality(At("closeSessions")) = 1
                       /\ RMCSGetStatusCode' = 0
           /\ (RMCSGetStatusCode = 0 /\ last'.op # "RMCSInit") => RMCSGetStatusCode' = 0
           /\ last'.op = "RMCSGetStatus" => last'.code = RMCSGetStatusCode
      ]_vars

\* C11 witness: RMCSStop returned on an instance that had a Connected
\* session and a streaming producer
C11_Witness ==
    /\ last.op = "RMCSStop" /\ last.was = "running" /\ last.ret # "blocked"
    /\ last.closed # {}
    /\ rmcsInstance = "nil"

\* C12: once Close has returned, the registry is empty and the producer is
\* idle, and a step that is not an offer leaves them so.
C12_ClosedUntilNextOffer ==
    [][(last.op = "Close" /\ last.ret = "nil" /\ last'.op # "Offer") =>
          (peerConnections' = NoSessions /\ ~isStreaming')
      ]_vars

-----------------------------------------------------------------------------
(* Properties of the file producer *)

\* C13: RMCSSwitchCamera(n) returns -1 when no instance is running, -2 when
\* n is not one of the cameras 1..7 or the directory of camera n has no
\* file, and 0 otherwise; when it returns -1 or -2 the file list, the
\* cached SPS, PPS and IDR, and the streaming state are what they were.
C13_SwitchCameraCodes ==
    [][last'.op = "RMCSSwitchCamera" =>
          /\ last'.code = (IF rmcsInstance = "nil" THEN -1
                           ELSE IF last'.arg \notin 1..7 \/ last'.ret = "noFiles" THEN -2
                           ELSE 0)
          /\ last'.code # 0 =>
                UNCHANGED <<camera, cached, isStreaming, loops, frameCounter>>
          /\ last'.code = 0 => camera' = last'.arg
      ]_vars

\* C13 witness: a switch was refused with -2 while the producer was
\* streaming files
C13_Witness ==
    /\ last.op = "RMCSSwitchCamera" /\ last.code = -2
    /\ isStreaming /\ frameCounter >= 0 /\ camera # 0

\* C14: the first file the stream loop writes after a successful switch to
\* another camera made while it is running is the first file of the new
\* source, the one its SPS, PPS and IDR are read from.
C14_SwitchRestartsAtParameterSets ==
    [][(/\ last.op = "RMCSSwitchCamera" /\ last.code = 0 /\ loops > 0
        /\ camera = last.arg /\ camera # defaultCamera
        /\ last'.op = "Tick" /\ last'.ret # "panic")
          => last'.code = 0
      ]_vars


-----------------------------------------------------------------------------
(* Properties of the camera producer *)

\* C15: no slice (NAL type 1 or 5) is written to the track before both an
\* SPS and a PPS have been written to it.
C15_NoSliceBeforeConfig ==
    \A i \in 1..Len(capture.track) :
        NalType(capture.track[i].nal) \in {1, 5} =>
            /\ \E j \in 1..(i - 1) : NalType(capture.track[j].nal) = 7
            /\ \E j \in 1..(i - 1) : NalType(capture.track[j].nal) = 8

\* a slice has been written, after an IDR slice was skipped while waiting
C15_Witness ==
    /\ capture.lastIDR # << >>
    /\ \A i \in 1..Len(capture.track) : NalType(capture.track[i].nal) # 5
    /\ \E i \in 1..Len(capture.track) : NalType(capture.track[i].nal) = 1

\* C16: the two samples written immediately before every IDR slice are the
\* cached SPS and then the cached PPS, as cached when the IDR is written.
C16_IDRAfterCachedConfig ==
    [][\A i \in (Len(capture.track) + 1)..Len(capture'.track) :
          NalType(capture'.track[i].nal) = 5 =>
              /\ i - 2 > Len(capture.track)
              /\ capture'.sps # << >> /\ capture'.pps # << >>
              /\ capture'.track[i - 2].Data = startCode \o capture'.sps
              /\ capture'.track[i - 1].Data = startCode \o capture'.pps]_vars

\* an IDR slice is the last sample, written after the SPS and the PPS in
\* the cache had replaced the ones written first
C16_Witness ==
    /\ Len(capture.track) >= 5
    /\ NalType(capture.track[Len(capture.track)].nal) = 5
    /\ capture.track[1].nal # capture.sps

\* C17: once the producer has observed an IDR NAL, the cached SPS, PPS and
\* last IDR are all non-empty, whatever the order of arrival.
C17_CacheCompleteAfterIDR ==
    capture.lastIDR # << >> => capture.sps # << >> /\ capture.pps # << >>

\* C18: a slice is written as start code, timestamp SEI, start code, slice;
\* a NAL of another type as start code, NAL; and the timestamps of
\* successive slice samples never decrease.
C18_SliceSamplesCarrySEI ==
    \A i \in 1..Len(capture.track) :
        LET s == capture.track[i]
        IN  IF NalType(s.nal) \in {1, 5}
            THEN /\ s.at \in 0..MaxClock
                 /\ s.Data = startCode \o createSimpleTimestampSEI(s.at)
                                 \o startCode \o s.nal
                 /\ \A j \in 1..(i - 1) : capture.track[j].at <= s.at
            ELSE s.Data = startCode \o s.nal

\* two slices written at different times, and an SEI of the encoder
\* written in between
C18_Witness ==
    \E i, j, k \in 1..Len(capture.track) :
        /\ i < k /\ k < j
        /\ NalType(capture.track[i].nal) = 1
        /\ NalType(capture.track[k].nal) = 6
        /\ NalType(capture.track[j].nal) = 5
        /\ capture.track[i].at < capture.track[j].at

-----------------------------------------------------------------------------
(* Properties of the byte-level functions *)

\* C19: splitting a buffer into NAL units, joining them in Annex-B form and
\* splitting the result gives the NAL units of the first split.
C19_SplitJoinSplit ==
    buf.op = "FindNALUnitsAgain" => buf.again = buf.nals

\* C20: removing each 0x03 that follows two zero bytes from the escaped
\* payload gives the payload back, and escaping that gives the escaped
\* payload again.
C20_EscapeRoundTrip ==
    buf.op = "addEmulationPrevention" =>
        LET e == buf.out
            kept == {i \in 1..Len(e) : ~(i > 2 /\ e[i] = 3 /\ e[i - 1] = 0 /\ e[i - 2] = 0)}
            RECURSIVE Pick(_)
            Pick(i) == IF i > Len(e) THEN << >>
                       ELSE (IF i \in kept THEN <<e[i]>> ELSE << >>) \o Pick(i + 1)
            decoded == Pick(1)
        IN  /\ decoded = buf.data
            /\ addEmulationPrevention(decoded) = e

\* a payload in which a 0x03 of its own follows two zeros has been escaped
C20_Witness ==
    /\ buf.op = "addEmulationPrevention"
    /\ Len(buf.out) > Len(buf.data)
    /\ \E i \in 3..Len(buf.data) :
           buf.data[i] = 3 /\ buf.data[i - 1] = 0 /\ buf.data[i - 2] = 0

\* C21: createSimpleTimestampSEI(t) begins with 0x06 and ends with 0x80, and
\* the bytes in between, with each 0x03 that follows two zero bytes removed,
\* are 0x05, 0x08 and the eight bytes of t, most significant first.
C21_SEICarriesTimestamp ==
    last.op = "createSimpleTimestampSEI" =>
        LET sei == buf.out
            e == SubSeq(sei, 2, Len(sei) - 1)
            RECURSIVE Pick(_)
            Pick(i) == IF i > Len(e) THEN << >>
                       ELSE (IF i > 2 /\ e[i] = 3 /\ e[i - 1] = 0 /\ e[i - 2] = 0
                             THEN << >> ELSE <<e[i]>>) \o Pick(i + 1)
            payload == Pick(1)
            RECURSIVE Value(_)
            Value(n) == IF n = 2 THEN 0 ELSE Value(n - 1) * 256 + payload[n]
        IN  /\ Len(sei) >= 2 /\ sei[1] = 6 /\ sei[Len(sei)] = 128
            /\ Len(payload) = 10 /\ payload[1] = 5 /\ payload[2] = 8
            /\ Value(10) = last.arg

\* a timestamp with bytes at both ends and zeros in between has been encoded
C21_Witness ==
    /\ last.op = "createSimpleTimestampSEI"
    /\ last.arg = ((127 * 256 + 0) * 256 + 0) * 256 + 3
    /\ Len(buf.out) > 12

\* C22: a WriteSample failure on a closed track does not end the stream
\* loop, and the recorded streaming state still says whether a loop runs.
C22_ClosedTrackIgnored ==
    [][(last'.op = "Tick" /\ last'.ret = "closedPipe") =>
          (loops' = loops /\ (isStreaming' <=> loops' > 0))]_vars

-----------------------------------------------------------------------------
(* Properties of the locking discipline and of the callbacks *)

\* C23: w.mu is not held while a connection is closed, SDP is negotiated, a
\* candidate is added or StopStreaming is called: in the steps of every
\* registry operation, each of these comes with as many unlocks as locks
\* before it.
C23_RegistryLockNotHeldAcrossBlocking ==
    \A i \in 1..Len(last.trace) :
        last.trace[i] \in {"pc.Close", "SetRemoteDescription", "CreateAnswer",
                           "SetLocalDescription", "pc.AddICECandidate", "StopStreaming"}
           => Cardinality({j \in 1..i : last.trace[j] = "Lock"})
                 = Cardinality({j \in 1..i : last.trace[j] = "Unlock"})

\* C24: a callback for Disconnected, Failed or Closed decides to stop the
\* producer only if no session in the registry is Connected, the session
\* registered under the callback's own peerId included.
C24_StopOnlyIfNoneConnected ==
    [][(last'.op = "CallbackCheck" /\ last'.ret = "stop") =>
          ~HasConnected(peerConnections)]_vars

\* C25: once an SPS and a PPS have both been observed, in either order, the
\* camera producer is no longer waiting for its configuration.
C25_RunningOnceConfigObserved ==
    (capture.sps # << >> /\ capture.pps # << >>) => ~capture.waitingForConfig

\* C26: the step that ends the wait writes exactly two samples, the cached
\* SPS and then the cached PPS, without SEI, and the PPS that ended the wait
\* is not written once more.
C26_TwoSamplesOnTransition ==
    [][(capture.waitingForConfig /\ ~capture'.waitingForConfig) =>
          capture'.track = capture.track \o <<sendNALUnitNoSEI(capture'.sps),
                                              sendNALUnitNoSEI(capture'.pps)>>]_vars

\* C27: every IDR that ProcessNALUnits returns comes directly after the
\* SPS and then the PPS seen last before it, in the same output.
C27_IDRCarriesConfig ==
    [][\A i \in 1..Len(parser'.out) :
          NalType(parser'.out[i]) = 5 =>
              LET out == parser'.out
                  Seen(type, old) ==
                      LET at == {j \in 1..(i - 3) : NalType(out[j]) = type}
                      IN  IF at = {} THEN old
                          ELSE out[CHOOSE j \in at : \A k \in at : k <= j]
              IN  /\ i >= 3
                  /\ out[i - 2] = Seen(7, parser.sps) /\ out[i - 2] # << >>
                  /\ out[i - 1] = Seen(8, parser.pps) /\ out[i - 1] # << >>]_vars

\* C28: after a successful source switch each of the cached SPS, PPS and IDR
\* is empty or was read from the new source.
C28_CacheFromNewSource ==
    [][(last'.op = "RMCSSwitchCamera" /\ last'.code = 0) =>
          \A t \in ParameterSets : cached'[t] \in {0, camera'}]_vars

\* C29: no tick of the stream loop runs in the middle of LoadH264Files, each
\* tick finds the file list and the cached parameter sets of one source, and
\* when no switch is under way they are those of one source.
C29_SwitchesSerialized ==
    [][/\ last'.op = "Tick" =>
             (switching = {} /\ \A t \in ParameterSets : cached[t] = camera)
       /\ switching' = {} => \A t \in ParameterSets : cached'[t] = camera']_vars

\* C30: the NAL units taken from the buffer do not depend on the chunks the
\* stream arrives in: at every moment they are the first of the units taken
\* from the whole stream in one buffer, and all of them once the stream has
\* been read; a unit is taken only when the start code after it has arrived.
C30_ChunkingIndependent ==
    LET whole == Drain(reader.stream, << >>).nals
        sofar == Drain(SubSeq(reader.stream, 1, Len(reader.stream) - Len(reader.rest)),
                       << >>).nals
    IN  /\ reader.nals = sofar
        /\ Len(reader.nals) <= Len(whole)
        /\ reader.nals = SubSeq(whole, 1, Len(reader.nals))
        /\ reader.rest = << >> => reader.nals = whole

\* a chunk has ended inside the start code that follows the second unit of
\* a stream: the first unit has been taken, the second not yet
C30_Witness ==
    /\ reader.stream = <<0, 0, 1, 1, 0, 0, 1, 1, 0, 0, 1, 1>>
    /\ reader.rest = <<1, 1>>
    /\ reader.nals = <<<<1>>>>
    /\ reader.buffer = <<0, 0, 1, 1, 0, 0>>

\* C31: the output of addEmulationPrevention has no two zero bytes followed
\* by 0, 1 or 2; the bytes of the output other than each 0x03 that follows
\* two zero bytes are the input in order, and each such 0x03 stands before
\* a byte that is at most 3: a 0x03 is inserted before each input byte that
\* is at most 3 and follows two zero bytes of the output, and nowhere else.
C31_EscapeAtOutputZeros ==
    buf.op = "addEmulationPrevention" =>
        LET out == buf.out
            inserted == {i \in 3..Len(out) : out[i] = 3 /\ out[i - 1] = 0 /\ out[i - 2] = 0}
            RECURSIVE Others(_)
            Others(i) == IF i > Len(out) THEN << >>
                         ELSE (IF i \in inserted THEN << >> ELSE <<out[i]>>) \o Others(i + 1)
        IN  /\ \A i \in 3..Len(out) :
                  ~(out[i] \in {0, 1, 2} /\ out[i - 1] = 0 /\ out[i - 2] = 0)
            /\ Others(1) = buf.data
            /\ \A i \in inserted : i < Len(out) /\ out[i + 1] <= 3

\* four zero bytes and a 2 have been escaped: the fourth byte follows two
\* zero bytes of the input, and of the output a 0x03 and a zero
C31_Witness ==
    /\ buf.op = "addEmulationPrevention"
    /\ buf.data = <<0, 0, 0, 0, 2>>
    /\ buf.out = <<0, 0, 3, 0, 0, 3, 2>>

\* C31 as stated of the input: as many 0x03 bytes are inserted as the input
\* has bytes that are at most 3 and follow two zero bytes of the input.
C31_EscapeAtInputZeros ==
    buf.op = "addEmulationPrevention" =>
        Len(buf.out) - Len(buf.data) =
            Cardinality({k \in 3..Len(buf.data) :
                            buf.data[k] <= 3 /\ buf.data[k - 1] = 0 /\ buf.data[k - 2] = 0})

-----------------------------------------------------------------------------
(* Properties of the stream loop, of shutdown and of signaling order *)

\* C32: with files loaded, each tick of the stream loop writes the file
\* after the one written last, the first file after the last one and after
\* a start, and the loop goes on ticking until StopStreaming ends it; a
\* StartStreaming that starts a loop makes the next file the first.
C32_FilesInOrderUntilStopped ==
    [][/\ (last'.op = "Tick" /\ last'.ret # "panic" /\ Files > 0) =>
             /\ last'.code = (IF frameCounter < 0 THEN 0 ELSE (frameCounter + 1) % Files)
             /\ loops' = loops
       /\ (last'.op = "CallbackConnected" /\ ~isStreaming) =>
             (frameCounter' = -1 /\ loops' = loops + 1)
      ]_vars

\* C33: of a file that is a concatenation of NAL units, each of one byte or
\* more after its length in four bytes, FindNALUnits returns these units in
\* order, whatever the first length is.
C33_LengthPrefixedUnits ==
    buf.op = "FindNALUnits" =>
        LET data == buf.data
            RECURSIVE Units(_)
            Units(i) ==
                IF i >= Len(data) THEN << >>
                ELSE LET length == ((data[i + 1] * 256 + data[i + 2]) * 256 + data[i + 3]) * 256
                                      + data[i + 4]
                     IN  <<SubSeq(data, i + 5, i + 4 + length)>> \o Units(i + 4 + length)
        IN  buf.nals = Units(0)

\* C34: no local candidate of a session is published on the candidate topic
\* of its peer before the answer to the offer that made the session has
\* been published.
C34_AnswerBeforeCandidates ==
    [][(last'.op = "OnICECandidate" /\ last'.pubs # << >>) =>
          ice[last'.peer].stage = "answered"]_vars

\* C39: every local candidate a session gathers once its local answer has
\* been applied is published, on the candidate topic of the peer of the
\* session and on no other.
C39_NoCandidateLost ==
    [][last'.op = "OnICECandidate" =>
          last'.pubs = <<[topic |-> PeerTopic(last'.peer, candidateRmcsSuffix),
                          payload |-> "candidateJSON"]>>]_vars

\* C35: Stop on a running capture returns: while it waits at its send on
\* stopChan the reader is never blocked on c.mu nor gone, so that the send
\* is received; and when Stop has returned the reader has exited and the
\* encoder process has been killed.
C35_StopReturns ==
    /\ capture.stop = "sending" => capture.at \notin {"lock", "exited"}
    /\ capture.stop = "returned" => (capture.at = "exited" /\ capture.cmd = "killed")

\* C36: RMCSStop on a running instance publishes one message, the payload
\* "robot" on base/disconnect-tractor, and no second one.
C36_OneDisconnectTractor ==
    (last.op = "RMCSStop" /\ last.was = "running") =>
        last.pubs = <<[topic |-> disconnectTractorTopic, payload |-> "robot"]>>

\* C37: at every tick of the stream loop the index of the file it takes is
\* within the file list, also when the loop was started with no file
\* loaded.
C37_FrameIndexInBounds ==
    [][last'.op = "Tick" =>
          (~crashed' /\ last'.ret # "panic" /\ last'.code \in 0..(Files - 1))]_vars

\* C38: no goroutine is left waiting for ever: no StopStreaming is blocked
\* at its send on stopChan holding v.mu, and no caller of it holding w.mu.
C38_EveryStopReturns ==
    /\ vmu = "free"
    /\ wmu = "free"

\* C40: an offer that ProcessOffer refuses leaves the registry as it was: no
\* session is registered for its peer that was not there, the session the
\* peer had is registered in the state it had, and so is every other
\* peer's.
C40_RefusedOfferLeavesRegistry ==
    [][(last'.op = "Offer" /\ last'.ret = "err") => peerConnections' = peerConnections]_vars

=============================================================================
